---------------------------- MODULE Spec2Model ----------------------------
(***************************************************************************)
(* A state-machine model of ollama_telegrambot_api (agent.py):             *)
(*   - OllamaStreamResponse.ask, the reader thread of one question;        *)
(*   - OllamaAPI, the single object all handlers share (chatOllama);       *)
(*   - TelegramAgent.handle_message with its disclaimer gate, the display  *)
(*     loop stream_response, parse_response, the audit log and the         *)
(*     terminal sends.                                                     *)
(* Threads interleave at every read or write of a shared field; handlers   *)
(* (coroutines on one event loop) interleave only at their awaits.         *)
(***************************************************************************)
EXTENDS Integers, Sequences, FiniteSets, TLC

(* Bounds of the model. *)
MaxLines == 2
MaxIter == 2
MaxFail == 2
MaxTime == 2
(* time(), in seconds, when the run begins.                                *)
Epoch == 10
(* The same budgets of lines and of failing calls for a run of two         *)
(* concurrent questions.                                                   *)
ConcurrentLines == 1
ConcurrentFails == 1
(* The most pieces (a letter, a fence, a lone backtick) in an answer text  *)
(* of the runs that draw a whole text at once.                             *)
MaxUnits == 5
(* time() is counted in ticks, TicksPerSecond of them to the second, so    *)
(* that int(time()) has something to cut off.                              *)
TicksPerSecond == 2
(* The longest wait, in ticks, before an update is taken, in the runs that *)
(* let time pass between questions.                                        *)
MaxDelay == 3
(* The most iterations of the display loop in the runs that follow its     *)
(* back-off.                                                               *)
MaxBackoff == 30

(* The questions of one run, in arrival order, and who may send them. *)
Questions == {1, 2}
Users == {"u1", "u2"}

(* Python's None, for the fields that hold a string otherwise. *)
None == "None"
(* An attribute that was never assigned (reading it raises AttributeError) *)
(* is the empty sequence, and an assigned one the sequence of its value.   *)
Unset == <<>>

(* A text is a sequence of characters; Backtick stands for the backtick    *)
(* character. format_answer splits on three of them in a row.              *)
Backtick == "bt"
Fence == <<Backtick, Backtick, Backtick>>
(* What the backend may put in the response field of a line.               *)
Tokens == { <<"a">>, Fence }
(* Every text of at most MaxUnits pieces, with whole and broken fences.    *)
Units == { <<"a">>, Fence, <<Backtick>> }
RECURSIVE Flatten(_)
Flatten(ss) == IF ss = <<>> THEN <<>> ELSE ss[1] \o Flatten(Tail(ss))
Texts == { Flatten(u) : u \in UNION { [1..n -> Units] : n \in 0..MaxUnits } }
(* What a non-success reply carries. *)
ErrorStatuses == {500}
ErrorBodies == {"overloaded"}

VARIABLES
    (* configuration and dispatch *)
    concurrent,          \* TRUE: the dispatcher runs handlers as concurrent tasks
    updates,             \* how many questions arrive in this run
    vocabulary,          \* the response fields the backend's lines may carry
    iteration_cap,       \* where while_iteration stops growing in this run
    delays,              \* the ticks that may pass before an update is taken
    lines_left,          \* lines the backend may still deliver in this run
    fails_left,          \* Telegram calls that may still fail in this run
    disclaimer_message,  \* TelegramAgent.disclaimer_message
    min_time_between_disclaimers,
    user_id,             \* user_id[q]: the sender of question q
    now,                 \* time(), in ticks
    running,             \* the handler that holds the event loop, or None
    (* OllamaStreamResponse of question q *)
    answer, answer_finished, error, status_code, response_text,
    rpc,                 \* the reader thread's position in ask
    response_status,     \* response.status_code of the reply, 0 before it
    token_done,          \* the parsed line's "done" between lines 126 and 127
    joined,              \* ask_thread.join() returned
    body,                \* body[q]: the parsed lines the reader has taken so far
    (* OllamaAPI: one object for all questions *)
    Response, message_payload, start_time,
    (* handle_message / stream_response of question q *)
    hpc,                 \* the handler's position
    message_id, parse_mode, while_iteration, previous_answer,
    slept,               \* sleep_time of the last sleep of line 295, 0 before it
    answer_dict, answer_blocks,
    block_i,             \* the index of the block the for loop of line 338 is at
    (* collaborators *)
    Log,                 \* rows of the audit store, oldest first
    disclaimer_sent_at,  \* per user: time() of the last disclaimer delivered, or -1
    out                  \* out[q]: the Telegram calls made for question q

streamVars == <<answer, answer_finished, error, status_code, response_text,
                rpc, response_status, token_done, joined, body>>
apiVars == <<Response, message_payload, start_time>>
cfgVars == <<concurrent, updates, vocabulary, iteration_cap, delays, disclaimer_message, min_time_between_disclaimers,
            user_id>>
envVars == <<lines_left, fails_left>>
handlerVars == <<hpc, message_id, parse_mode, while_iteration, previous_answer,
                 slept, answer_dict, answer_blocks, block_i>>
sinkVars == <<Log, out, disclaimer_sent_at>>
vars == <<cfgVars, envVars, now, running, streamVars, apiVars, handlerVars, sinkVars>>

-----------------------------------------------------------------------------
(* Values and pure functions                                               *)

(* message_id = None at line 283; Telegram's message ids are positive.     *)
NoMessage == 0
(* Line 310 storing nothing: message_id stays None after the send.         *)
MessageIdForgotten(q) == NoMessage

(* The id Telegram gives the message that reply_text creates for q.        *)
MessageIdOf(q) == q
(* Response, message_payload before any question was asked.                *)
NoQuestion == 0
(* previous_answer before line 311 has bound it.                           *)
Unbound == <<"<unbound>">>

(* update.message.text of question q, and the command's text in start.     *)
question(q) == IF q = 1 THEN "question 1" ELSE "question 2"
StartCommand == "/start"

(* stream_response, 298-301: the provisional text.                         *)
Provisional(mode, text) ==
    IF mode = None THEN text ELSE <<"<i>">> \o text \o <<"...</i>">>

(* The largest k with d * 2^k <= n, for n >= d > 0.                        *)
RECURSIVE FloorLog2(_, _)
FloorLog2(n, d) == IF n < 2 * d THEN 0 ELSE 1 + FloorLog2(n, 2 * d)

(* Line 294 without its + 1.                                               *)
sleep_timeWithoutOne(i) == FloorLog2(10 + i, 10)

(* stream_response, 294: int(np.log2(1 + while_iteration/10) + 1).         *)
sleep_time(i) == FloorLog2(10 + i, 10) + 1

(* str.split on the fence: the pieces between the fences, left to right, fences  *)
(* not overlapping.                                                        *)
RECURSIVE SplitFrom(_, _, _, _)
SplitFrom(s, i, cur, acc) ==
    IF i > Len(s) THEN Append(acc, cur)
    ELSE IF i + 2 <= Len(s) /\ SubSeq(s, i, i + 2) = Fence
         THEN SplitFrom(s, i + 3, <<>>, Append(acc, cur))
         ELSE SplitFrom(s, i + 1, Append(cur, s[i]), acc)

split(s) == SplitFrom(s, 1, <<>>, <<>>)

(* format_answer, 236: the execution-time text.                            *)
TimeText(t) == <<"<i>Execution time: ", ToString(t), "s</i>">>

(* format_answer, 239-248 with line 248 as line 244: a code piece is      *)
(* given without its fences.                                               *)
BlockBare(pieces, i) ==
    [type |-> "answer",
     format |-> IF (i - 1) % 2 = 0 THEN "HTML" ELSE "MarkdownV2",
     text |-> pieces[i]]

(* format_answer, 239-248 with the test of line 241 turned round.          *)
BlockParityShifted(pieces, i) ==
    IF (i - 1) % 2 = 1
    THEN [type |-> "answer", format |-> "HTML", text |-> pieces[i]]
    ELSE [type |-> "answer", format |-> "MarkdownV2",
          text |-> Fence \o pieces[i] \o Fence]

(* format_answer, 239-248: the block of piece i (Python counts from 0).    *)
Block(pieces, i) ==
    IF (i - 1) % 2 = 0
    THEN [type |-> "answer", format |-> "HTML", text |-> pieces[i]]
    ELSE [type |-> "answer", format |-> "MarkdownV2",
          text |-> Fence \o pieces[i] \o Fence]

(* format_answer without the test of line 251: empty blocks are kept.     *)
format_answerKeepsEmpty(text, execution_time) ==
    LET pieces == split(text)
        blocks == [i \in 1..Len(pieces) |-> Block(pieces, i)]
    IN  <<[type |-> "time", format |-> "HTML", text |-> TimeText(execution_time)]>>
        \o blocks

(* format_answer with lines 232-238 after the loop, as format_answer of    *)
(* telegram_ollamabot.py (104-126) has them: the time block comes last.    *)
format_answerTimeLast(text, execution_time) ==
    LET pieces == split(text)
        blocks == [i \in 1..Len(pieces) |-> Block(pieces, i)]
    IN  SelectSeq(blocks, LAMBDA b : b.text # <<>>)
        \o <<[type |-> "time", format |-> "HTML", text |-> TimeText(execution_time)]>>

(* format_answer, 228-253, of the text it reads at line 229.               *)
format_answer(text, execution_time) ==
    LET pieces == split(text)
        blocks == [i \in 1..Len(pieces) |-> Block(pieces, i)]
    IN  <<[type |-> "time", format |-> "HTML", text |-> TimeText(execution_time)]>>
        \o SelectSeq(blocks, LAMBDA b : b.text # <<>>)

(* ask, 126 with the text reversed: the new piece is put in front.         *)
AccumulateInFront(text, piece) == piece \o text

(* ask, 126: self.answer = self.answer + token_json["response"].           *)
Accumulate(text, piece) == text \o piece

(* handle_message, 348.                                                    *)
error_message == <<"<b>An error occurred. Please try again later.</b>">>

(* parse_response, 166: the diagnostic text of a stream whose status_code  *)
(* and response_text are set.                                              *)
Diagnostic(code, text) ==
    <<"Status Code: ", ToString(code[1]), " - Response: ", text[1]>>

(* start, 211 and 213.                                                     *)
StartAnswer(sent) ==
    IF sent THEN <<"Disclaimer message sent.">> ELSE <<"Nothing has been sent.">>

(* SQLiteLogger.__call__, 125: int(time()), whole seconds.                 *)
Seconds(t) == t \div TicksPerSecond

(* The last tick of the clock of a run.                                    *)
LastTick == (Epoch + MaxTime) * TicksPerSecond

(* SQLiteLogger.find_last_record_user: the timestamp of the user's latest  *)
(* row, or 0 for a user with none.                                         *)
RECURSIVE LastOf(_, _, _)
LastOf(rows, u, i) ==
    IF i = 0 THEN 0
    ELSE IF rows[i].user_id = u THEN rows[i].timestamp ELSE LastOf(rows, u, i - 1)

find_last_record_user(u) == LastOf(Log, u, Len(Log))

(* SQLiteLogger.__call__, 113-137: the row record_log inserts.             *)
LogRow(d, t) ==
    [user_id |-> d.user_id, question |-> d.question, answer |-> d.answer,
     execution_time |-> d.execution_time, error |-> d.error, timestamp |-> t]

(* A call of the Telegram API made for a question.                         *)
Call(op, by, id, text, mode, ok) ==
    [op |-> op, by |-> by, message_id |-> id, text |-> text,
     parse_mode |-> mode, ok |-> ok]

-----------------------------------------------------------------------------
(* The reader thread: OllamaStreamResponse.ask                             *)

(* requests.post raises before any reply: line 118, caught at 135-137.     *)
ConnectFail(q) ==
    /\ rpc[q] = "L118"
    /\ error' = [error EXCEPT ![q] = TRUE]
    /\ rpc' = [rpc EXCEPT ![q] = "ended"]
    /\ UNCHANGED <<answer, answer_finished, status_code, response_text,
                   response_status, token_done, joined, body>>
    /\ UNCHANGED lines_left

(* The reply has status 200: line 119, on to the line loop.                *)
Status200(q) ==
    /\ rpc[q] = "L118"
    /\ response_status' = [response_status EXCEPT ![q] = 200]
    /\ rpc' = [rpc EXCEPT ![q] = "L121"]
    /\ UNCHANGED <<answer, answer_finished, error, status_code, response_text,
                   token_done, joined, body>>
    /\ UNCHANGED lines_left

(* The reply has another status s and body b: line 129 stores the body.    *)
StatusNot200(q, s, b) ==
    /\ rpc[q] = "L118"
    /\ response_status' = [response_status EXCEPT ![q] = s]
    /\ response_text' = [response_text EXCEPT ![q] = <<b>>]
    /\ rpc' = [rpc EXCEPT ![q] = "L131"]
    /\ UNCHANGED <<answer, answer_finished, error, status_code,
                   token_done, joined, body>>
    /\ UNCHANGED lines_left

(* Line 131: self.error = True.                                            *)
SetError(q) ==
    /\ rpc[q] = "L131"
    /\ error' = [error EXCEPT ![q] = TRUE]
    /\ rpc' = [rpc EXCEPT ![q] = "L134"]
    /\ UNCHANGED <<answer, answer_finished, status_code, response_text,
                   response_status, token_done, joined, body>>
    /\ UNCHANGED lines_left

(* Line 134: self.status_code = response.status_code, after the else       *)
(* branch or after the line loop has run out of lines.                     *)
SetStatusCode(q) ==
    /\ rpc[q] = "L134"
    /\ status_code' = [status_code EXCEPT ![q] = <<response_status[q]>>]
    /\ rpc' = [rpc EXCEPT ![q] = "ended"]
    /\ UNCHANGED <<answer, answer_finished, error, response_text,
                   response_status, token_done, joined, body>>
    /\ UNCHANGED lines_left

(* An empty line is skipped: line 122.                                     *)
EmptyLine(q) ==
    /\ rpc[q] = "L121"
    /\ lines_left > 0
    /\ lines_left' = lines_left - 1
    /\ UNCHANGED <<answer, answer_finished, error, status_code, response_text,
                   rpc, response_status, token_done, joined, body>>

(* A line that json.loads accepts and that has a "response" key: line 126  *)
(* appends. d is the line's "done" value ("T", "F"), or "missing" for a    *)
(* line without that key.                                                  *)
AppendLine(q, tok, d) ==
    /\ rpc[q] = "L121"
    /\ lines_left > 0
    /\ lines_left' = lines_left - 1
    /\ answer' = [answer EXCEPT ![q] = Accumulate(@, tok)]
    /\ token_done' = [token_done EXCEPT ![q] = d]
    /\ body' = [body EXCEPT ![q] = Append(@, [response |-> tok, done |-> d])]
    /\ rpc' = [rpc EXCEPT ![q] = "L127"]
    /\ UNCHANGED <<answer_finished, error, status_code, response_text,
                   response_status, joined>>

(* Line 127: self.answer_finished = token_json["done"], whatever it was    *)
(* before; the for loop goes on to the next line.                          *)
AssignFinished(q) ==
    /\ rpc[q] = "L127"
    /\ token_done[q] \in {"T", "F"}
    /\ answer_finished' = [answer_finished EXCEPT ![q] = (token_done[q] = "T")]
    /\ token_done' = [token_done EXCEPT ![q] = None]
    /\ rpc' = [rpc EXCEPT ![q] = "L121"]
    /\ UNCHANGED <<answer, error, status_code, response_text,
                   response_status, joined, body>>
    /\ UNCHANGED lines_left

(* Line 127 without a "done" key: KeyError, which line 135 does not catch. *)
MissingDone(q) ==
    /\ rpc[q] = "L127"
    /\ token_done[q] = "missing"
    /\ token_done' = [token_done EXCEPT ![q] = None]
    /\ rpc' = [rpc EXCEPT ![q] = "crashed"]
    /\ UNCHANGED <<answer, answer_finished, error, status_code, response_text,
                   response_status, joined, body>>
    /\ UNCHANGED lines_left

(* A line that is no JSON (json.JSONDecodeError at 125) or has no          *)
(* "response" key (KeyError at 126): neither is a RequestException, so the *)
(* thread ends with the exception and sets nothing.                        *)
MalformedLine(q) ==
    /\ rpc[q] = "L121"
    /\ lines_left > 0
    /\ lines_left' = lines_left - 1
    /\ rpc' = [rpc EXCEPT ![q] = "crashed"]
    /\ UNCHANGED <<answer, answer_finished, error, status_code, response_text,
                   response_status, token_done, joined, body>>

(* iter_lines raises a RequestException mid-stream: lines 135-137. Line    *)
(* 134 is skipped.                                                         *)
StreamFault(q) ==
    /\ rpc[q] = "L121"
    /\ error' = [error EXCEPT ![q] = TRUE]
    /\ rpc' = [rpc EXCEPT ![q] = "ended"]
    /\ UNCHANGED <<answer, answer_finished, status_code, response_text,
                   response_status, token_done, joined, body>>
    /\ UNCHANGED lines_left

(* The body ends: the for loop is left, line 134 is next.                  *)
EndOfBody(q) ==
    /\ rpc[q] = "L121"
    /\ rpc' = [rpc EXCEPT ![q] = "L134"]
    /\ UNCHANGED <<answer, answer_finished, error, status_code, response_text,
                   response_status, token_done, joined, body>>
    /\ UNCHANGED lines_left

ask(q) ==
    /\ \/ ConnectFail(q)
       \/ Status200(q)
       \/ \E s \in ErrorStatuses, b \in ErrorBodies : StatusNot200(q, s, b)
       \/ SetError(q)
       \/ SetStatusCode(q)
       \/ EmptyLine(q)
       \/ \E tok \in vocabulary, d \in {"T", "F", "missing"} : AppendLine(q, tok, d)
       \/ AssignFinished(q)
       \/ MissingDone(q)
       \/ MalformedLine(q)
       \/ StreamFault(q)
       \/ EndOfBody(q)
    /\ UNCHANGED <<cfgVars, fails_left, now, running, apiVars, handlerVars, sinkVars>>

-----------------------------------------------------------------------------
(* The handlers: TelegramAgent.handle_message and what it calls. A handler *)
(* runs from one await to the next holding the event loop (running); a     *)
(* call of the Telegram API is an await, recorded with its outcome.        *)

Active(q) == hpc[q] \notin {"idle", "returned", "raised"}

(* The outcome of a call of the Telegram API: one that Telegram can accept *)
(* succeeds, or fails while the run has failures left; one that it cannot  *)
(* accept (an edit without a message id) fails.                            *)
Outcome(ok, acceptable) ==
    /\ ok => acceptable
    /\ ~ok /\ acceptable => fails_left > 0
    /\ fails_left' = IF ~ok /\ acceptable THEN fails_left - 1 ELSE fails_left

(* Line 279 with >= for >.                                                 *)
GateFiresAtThreshold(q) ==
    /\ min_time_between_disclaimers > 0
    /\ now - TicksPerSecond * find_last_record_user(user_id[q])
           >= TicksPerSecond * min_time_between_disclaimers

(* send_disclaimer_message, 275-279: whether start is called. time() is a  *)
(* float, the timestamp and the interval are whole seconds.                *)
GateFires(q) ==
    /\ min_time_between_disclaimers > 0
    /\ now - TicksPerSecond * find_last_record_user(user_id[q])
           > TicksPerSecond * min_time_between_disclaimers

(* start, 215-225, with a row that carries no time.                        *)
StartRowUndated(q, sent) ==
    [user_id |-> user_id[q], question |-> StartCommand,
     answer |-> StartAnswer(sent), execution_time |-> 0, error |-> FALSE,
     timestamp |-> 0]

(* start, 215-225: the row of the user who sent q.                         *)
StartRow(q, sent) ==
    [user_id |-> user_id[q], question |-> StartCommand,
     answer |-> StartAnswer(sent), execution_time |-> 0, error |-> FALSE,
     timestamp |-> Seconds(now)]

(* OllamaAPI.ask, 153-159, and the first lines of stream_response,         *)
(* 283-287, which run before any await: the shared fields are overwritten, *)
(* the reader thread is started.                                           *)
StartAsk(q) ==
    /\ start_time' = now
    /\ message_payload' = q
    /\ Response' = q
    /\ rpc' = [rpc EXCEPT ![q] = "L118"]
    /\ message_id' = [message_id EXCEPT ![q] = NoMessage]
    /\ parse_mode' = [parse_mode EXCEPT ![q] = "HTML"]
    /\ while_iteration' = [while_iteration EXCEPT ![q] = 1]
    /\ slept' = [slept EXCEPT ![q] = 0]
    /\ hpc' = [hpc EXCEPT ![q] = "L288"]
    /\ running' = q
    /\ UNCHANGED <<answer, answer_finished, error, status_code, response_text,
                   response_status, token_done, joined, body>>
    /\ UNCHANGED <<previous_answer, answer_dict, answer_blocks, block_i>>

(* run_polling hands the next update to handle_message, d ticks after     *)
(* the step before. Updates are taken in order; unless the dispatcher runs *)
(* them concurrently, one is taken only when the handler of the one before *)
(* has ended.                                                              *)
Deliver(q, d) ==
    /\ hpc[q] = "idle"
    /\ running = NoQuestion
    /\ q <= updates
    /\ \A p \in Questions : p < q => hpc[p] # "idle"
    /\ ~concurrent => \A p \in Questions : ~Active(p)
    /\ now' = IF now + d <= LastTick THEN now + d ELSE LastTick
    /\ hpc' = [hpc EXCEPT ![q] = "L320"]
    /\ UNCHANGED <<cfgVars, envVars, running, streamVars, apiVars, sinkVars,
                   message_id, parse_mode, while_iteration, previous_answer, slept,
                   answer_dict, answer_blocks, block_i>>

(* handle_message, 319-327, up to its first await.                         *)
Arrive(q, ok) ==
    /\ hpc[q] = "L320"
    /\ running = NoQuestion
    /\ IF GateFires(q) /\ disclaimer_message # ""
       THEN (* start, 210: await reply_text *)
            /\ Outcome(ok, TRUE)
            /\ disclaimer_sent_at' = IF ok
                   THEN [disclaimer_sent_at EXCEPT ![user_id[q]] = now]
                   ELSE disclaimer_sent_at
            /\ out' = [out EXCEPT ![q] = Append(@,
                    Call("reply_text", "start", NoMessage, <<disclaimer_message>>, "HTML", ok))]
            /\ hpc' = [hpc EXCEPT ![q] = IF ok THEN "L211" ELSE "raised"]
            /\ UNCHANGED <<running, lines_left, Log, streamVars, apiVars, message_id, parse_mode,
                           while_iteration, previous_answer, slept, answer_dict,
                           answer_blocks, block_i>>
       ELSE /\ ok
            /\ Log' = IF GateFires(q) THEN Append(Log, StartRow(q, FALSE)) ELSE Log
            /\ StartAsk(q)
            /\ UNCHANGED <<out, envVars, disclaimer_sent_at>>
    /\ UNCHANGED <<cfgVars, now>>

(* start, 211-226, after the disclaimer was sent, and on to the question.  *)
StartReturns(q) ==
    /\ hpc[q] = "L211"
    /\ running = NoQuestion
    /\ Log' = Append(Log, StartRow(q, TRUE))
    /\ StartAsk(q)
    /\ UNCHANGED <<cfgVars, envVars, now, out, disclaimer_sent_at>>

(* stream_response, 288: the loop condition reads answer_finished.         *)
CheckFinished(q) ==
    /\ hpc[q] = "L288"
    /\ running \in {NoQuestion, q}
    /\ running' = q
    /\ hpc' = [hpc EXCEPT ![q] = IF answer_finished[q] THEN "L330" ELSE "L291"]
    /\ UNCHANGED <<cfgVars, envVars, now, streamVars, apiVars, sinkVars, message_id,
                   parse_mode, while_iteration, previous_answer, answer_dict,
                   answer_blocks, block_i>>
    /\ UNCHANGED slept

(* stream_response, 291-292: break on error.                               *)
CheckError(q) ==
    /\ hpc[q] = "L291"
    /\ running = q
    /\ hpc' = [hpc EXCEPT ![q] = IF error[q] THEN "L330" ELSE "L295"]
    /\ UNCHANGED <<cfgVars, envVars, now, running, streamVars, apiVars, sinkVars,
                   message_id, parse_mode, while_iteration, previous_answer,
                   answer_dict, answer_blocks, block_i>>
    /\ UNCHANGED slept

(* Line 305 without its comparison: every iteration edits.                 *)
UnchangedNever(text, previous) == FALSE

(* stream_response, 305: an edit is left out when the text is the one of   *)
(* the last call that succeeded.                                           *)
Unchanged(text, previous) == text = previous

(* stream_response, 294-316: the sleep (which holds the event loop) is     *)
(* over, the text is read and rendered, and sent, edited or skipped; ok is *)
(* whether the call succeeds. The counters stop growing at their bounds.   *)
Iterate(q, ok) ==
    LET text == Provisional(parse_mode[q], answer[q])
        edit == message_id[q] # NoMessage
        skip == edit /\ Unchanged(text, previous_answer[q])
    IN  /\ hpc[q] = "L295"
        /\ running = q
        /\ now' = IF now + TicksPerSecond * sleep_time(while_iteration[q]) <= LastTick
                  THEN now + TicksPerSecond * sleep_time(while_iteration[q]) ELSE now
        /\ slept' = [slept EXCEPT ![q] = sleep_time(while_iteration[q])]
        /\ while_iteration' = [while_iteration EXCEPT ![q] =
                                   IF @ < iteration_cap THEN @ + 1 ELSE @]
        /\ hpc' = [hpc EXCEPT ![q] = "L288"]
        /\ IF skip
           THEN /\ ok
                /\ UNCHANGED <<running, out, fails_left, message_id, parse_mode,
                               previous_answer>>
           ELSE /\ Outcome(ok, TRUE)
                /\ running' = NoQuestion
                /\ out' = [out EXCEPT ![q] = Append(@,
                        Call(IF edit THEN "edit_message_text" ELSE "reply_text",
                             "stream_response", message_id[q], text, parse_mode[q], ok))]
                /\ message_id' = [message_id EXCEPT ![q] =
                                      IF ok /\ ~edit THEN MessageIdOf(q) ELSE @]
                /\ previous_answer' = [previous_answer EXCEPT ![q] =
                                           IF ok THEN text ELSE @]
                /\ parse_mode' = [parse_mode EXCEPT ![q] = IF ok THEN @ ELSE None]
        /\ UNCHANGED <<cfgVars, lines_left, streamVars, apiVars, Log, answer_dict,
                       answer_blocks, block_i>>
        /\ UNCHANGED disclaimer_sent_at

(* OllamaAPI.parse_response, 161-175, on the fields of the shared object.  *)
(* Reading an attribute that ask has not assigned raises AttributeError.   *)
parse_response(q) ==
    LET R == Response
        P == message_payload
        raises == error[R] /\ (status_code[R] = Unset \/ response_text[R] = Unset)
    IN  /\ hpc[q] = "L330"
        /\ running = q
        /\ IF raises
           THEN /\ hpc' = [hpc EXCEPT ![q] = "raised"]
                /\ running' = NoQuestion
                /\ UNCHANGED answer_dict
           ELSE /\ hpc' = [hpc EXCEPT ![q] = "L176"]
                /\ answer_dict' = [answer_dict EXCEPT ![q] =
                       [answer |-> IF error[R]
                                   THEN Diagnostic(status_code[R], response_text[R])
                                   ELSE answer[R],
                        error |-> error[R],
                        user_id |-> user_id[P],
                        question |-> question(P),
                        time |-> start_time,
                        execution_time |-> now - start_time]]
                /\ UNCHANGED running
        /\ UNCHANGED <<cfgVars, envVars, now, streamVars, apiVars, sinkVars, message_id,
                       parse_mode, while_iteration, previous_answer, answer_blocks,
                       block_i>>
        /\ UNCHANGED slept

(* parse_response, 176: delete joins the thread of the shared Response,    *)
(* which waits for it to end; then handle_message, 332-336: the row is     *)
(* logged (and the same dict sent to the administrator), and format_answer *)
(* reads the text of the shared Response.                                  *)
JoinAndLog(q) ==
    /\ hpc[q] = "L176"
    /\ running = q
    /\ rpc[Response] \in {"ended", "crashed"}
    /\ joined' = [joined EXCEPT ![Response] = TRUE]
    /\ Log' = Append(Log, LogRow(answer_dict[q], Seconds(now)))
    /\ IF answer_dict[q].error
       THEN /\ hpc' = [hpc EXCEPT ![q] = "L349"]
            /\ UNCHANGED <<answer_blocks, block_i>>
       ELSE /\ hpc' = [hpc EXCEPT ![q] = "L338"]
            /\ answer_blocks' = [answer_blocks EXCEPT ![q] =
                   format_answer(answer[Response], answer_dict[q].execution_time)]
            /\ block_i' = [block_i EXCEPT ![q] = 1]
    /\ UNCHANGED <<cfgVars, envVars, now, running, apiVars, out, message_id,
                   parse_mode, while_iteration, previous_answer, answer_dict>>
    /\ UNCHANGED <<answer, answer_finished, error, status_code, response_text,
                   rpc, response_status, token_done, body>>
    /\ UNCHANGED slept
    /\ UNCHANGED disclaimer_sent_at

(* handle_message, 338-346: the next block is sent, the time block as an   *)
(* edit of the streamed message, the others as new messages. A call that   *)
(* raises ends the handler. Telegram refuses an edit without a message id. *)
SendBlock(q, ok) ==
    LET block == answer_blocks[q][block_i[q]]
        edit == block.type = "time"
    IN  /\ hpc[q] = "L338"
        /\ running \in {NoQuestion, q}
        /\ Outcome(ok, edit => message_id[q] # NoMessage)
        /\ running' = NoQuestion
        /\ out' = [out EXCEPT ![q] = Append(@,
                Call(IF edit THEN "edit_message_text" ELSE "reply_text",
                     "handle_message", IF edit THEN message_id[q] ELSE NoMessage,
                     block.text, block.format, ok))]
        /\ block_i' = [block_i EXCEPT ![q] = @ + 1]
        /\ hpc' = [hpc EXCEPT ![q] =
                       IF ~ok THEN "raised"
                       ELSE IF block_i[q] = Len(answer_blocks[q]) THEN "returned"
                       ELSE "L338"]
        /\ UNCHANGED <<cfgVars, lines_left, now, streamVars, apiVars, Log, message_id,
                       parse_mode, while_iteration, previous_answer, answer_dict,
                       answer_blocks>>
        /\ UNCHANGED slept
        /\ UNCHANGED disclaimer_sent_at

(* handle_message, 347-349: the streamed message is edited to the fixed    *)
(* error text.                                                             *)
SendError(q, ok) ==
    /\ hpc[q] = "L349"
    /\ running = q
    /\ Outcome(ok, message_id[q] # NoMessage)
    /\ running' = NoQuestion
    /\ out' = [out EXCEPT ![q] = Append(@,
            Call("edit_message_text", "handle_message", message_id[q],
                 error_message, "HTML", ok))]
    /\ hpc' = [hpc EXCEPT ![q] = IF ok THEN "returned" ELSE "raised"]
    /\ UNCHANGED <<cfgVars, lines_left, now, streamVars, apiVars, Log, message_id,
                   parse_mode, while_iteration, previous_answer, answer_dict,
                   answer_blocks, block_i>>
    /\ UNCHANGED slept
    /\ UNCHANGED disclaimer_sent_at

handle_message(q) ==
    \/ \E d \in delays : Deliver(q, d)
    \/ \E ok \in BOOLEAN : Arrive(q, ok)
    \/ StartReturns(q)
    \/ CheckFinished(q)
    \/ CheckError(q)
    \/ \E ok \in BOOLEAN : Iterate(q, ok)
    \/ parse_response(q)
    \/ JoinAndLog(q)
    \/ \E ok \in BOOLEAN : SendBlock(q, ok)
    \/ \E ok \in BOOLEAN : SendError(q, ok)

-----------------------------------------------------------------------------
(* The program                                                             *)

NoAnswerDict ==
    [answer |-> <<>>, error |-> FALSE, user_id |-> None, question |-> None,
     time |-> 0, execution_time |-> 0]

(* The configurations of a run: the disclaimer text (which start sends     *)
(* when it is not empty) and the interval; with interval 0 the text is     *)
(* never read.                                                             *)
Configurations ==
    { <<"disclaimer", 0>>, <<"disclaimer", 2>>, <<"", 2>> }

InitWith(conc, n, senders, lines, fails, responses, configurations, cap, waits) ==
    /\ concurrent = conc
    /\ delays = waits
    /\ iteration_cap = cap
    /\ updates = n
    /\ vocabulary \in responses
    /\ lines_left = lines
    /\ fails_left = fails
    /\ \E c \in configurations :
          /\ disclaimer_message = c[1]
          /\ min_time_between_disclaimers = c[2]
    /\ user_id \in senders
    /\ now = Epoch * TicksPerSecond
    /\ running = NoQuestion
    /\ answer = [q \in Questions |-> <<>>]
    /\ answer_finished = [q \in Questions |-> FALSE]
    /\ error = [q \in Questions |-> FALSE]
    /\ status_code = [q \in Questions |-> Unset]
    /\ response_text = [q \in Questions |-> Unset]
    /\ rpc = [q \in Questions |-> "idle"]
    /\ response_status = [q \in Questions |-> 0]
    /\ token_done = [q \in Questions |-> None]
    /\ joined = [q \in Questions |-> FALSE]
    /\ body = [q \in Questions |-> <<>>]
    /\ Response = NoQuestion
    /\ message_payload = NoQuestion
    /\ start_time = 0
    /\ hpc = [q \in Questions |-> "idle"]
    /\ message_id = [q \in Questions |-> NoMessage]
    /\ parse_mode = [q \in Questions |-> "HTML"]
    /\ while_iteration = [q \in Questions |-> 1]
    /\ slept = [q \in Questions |-> 0]
    /\ previous_answer = [q \in Questions |-> Unbound]
    /\ answer_dict = [q \in Questions |-> NoAnswerDict]
    /\ answer_blocks = [q \in Questions |-> <<>>]
    /\ block_i = [q \in Questions |-> 0]
    /\ Log = <<>>
    /\ disclaimer_sent_at = [u \in Users |-> -1]
    /\ out = [q \in Questions |-> <<>>]

(* One question, handled as run() builds the dispatcher.                   *)
Init == InitWith(FALSE, 1, {[q \in Questions |-> "u1"]}, MaxLines, MaxFail, {Tokens},
                 Configurations, MaxIter, {0})

Next == \E q \in Questions : ask(q) \/ handle_message(q)

Spec == Init /\ [][Next]_vars

(* Two questions of two users, with a dispatcher that runs the handlers as *)
(* concurrent tasks: they interleave at their awaits.                      *)
InitConcurrent ==
    InitWith(TRUE, 2, {[q \in Questions |-> IF q = 1 THEN "u1" ELSE "u2"]},
             ConcurrentLines, ConcurrentFails, {Tokens}, Configurations, MaxIter,
             {0})

SpecConcurrent == InitConcurrent /\ [][Next]_vars

(* One question whose answer comes in one line carrying one text of Texts, *)
(* with every call of the Telegram API succeeding.                         *)
InitFormat ==
    InitWith(FALSE, 1, {[q \in Questions |-> "u1"]}, 1, 0,
             { {t} : t \in Texts }, { <<"disclaimer", 2>> }, MaxIter, {0})

SpecFormat == InitFormat /\ [][Next]_vars

(* One question whose display loop may go round MaxBackoff times, with     *)
(* every call of the Telegram API succeeding.                              *)
InitBackoff ==
    InitWith(FALSE, 1, {[q \in Questions |-> "u1"]}, 1, 0, {Tokens},
             { <<"disclaimer", 2>> }, MaxBackoff, {0})

SpecBackoff == InitBackoff /\ [][Next]_vars

(* Two questions, one after the other, of one user or of two, each taken   *)
(* up to MaxDelay ticks after the step before, with an interval of one     *)
(* second or two.                                                          *)
InitGate ==
    InitWith(FALSE, 2,
             { [q \in Questions |-> "u1"],
               [q \in Questions |-> IF q = 1 THEN "u1" ELSE "u2"] },
             1, 0, {Tokens}, { <<"disclaimer", 1>>, <<"disclaimer", 2>> }, MaxIter,
             0..MaxDelay)

SpecGate == InitGate /\ [][Next]_vars

(* The same program with its scheduling: a thread that can step does, the  *)
(* event loop resumes a handler that can go on, and every read of the      *)
(* backend returns (a line, the end of the body or a fault).               *)
FairSpec ==
    /\ Init
    /\ [][Next]_vars
    /\ \A q \in Questions : WF_vars(ask(q)) /\ WF_vars(handle_message(q))

-----------------------------------------------------------------------------
(* Properties                                                              *)

Started(q) == rpc[q] # "idle"
Ended(q) == hpc[q] \in {"returned", "raised"}
InLoop(q) == hpc[q] \in {"L288", "L291", "L295"}
AfterParse(q) == hpc[q] \in {"L176", "L338", "L349", "returned", "raised"}
(* The reply began with status 200 and the stream then raised.             *)
Faulted(q) == error[q] /\ response_status[q] = 200
(* The backend answered with a non-success status.                         *)
Refused(q) == response_status[q] \in ErrorStatuses

IsPrefix(s, t) == Len(s) <= Len(t) /\ SubSeq(t, 1, Len(s)) = s

RowsOf(q) == {i \in 1..Len(Log) : Log[i].question = question(q)}

StreamEdits(q) ==
    SelectSeq(out[q], LAMBDA c : c.by = "stream_response" /\ c.op = "edit_message_text")

TerminalCalls(q) == SelectSeq(out[q], LAMBDA c : c.by = "handle_message")

(* C1: once answer_finished or error is true, the accumulated answer is    *)
(* never appended to again, whatever lines the backend still delivers.     *)
C1_NoAppendAfterTerminal ==
    [][\A q \in Questions :
          (answer_finished[q] \/ error[q]) => answer'[q] = answer[q]]_vars

(* C2: the terminal states are absorbing: finished never goes back to      *)
(* false and error is never set after it, finished is never set after      *)
(* error, and the two are never both true.                                 *)
C2_TerminalAbsorbing ==
    /\ [](\A q \in Questions : ~(answer_finished[q] /\ error[q]))
    /\ [][\A q \in Questions :
            /\ answer_finished[q] => answer_finished'[q] /\ error'[q] = error[q]
            /\ error[q] => answer_finished'[q] = answer_finished[q]]_vars

(* C3: every started question eventually has finished or error set and     *)
(* stream_response has returned.                                           *)
C3_RunsToCompletion ==
    \A q \in Questions :
        Started(q) ~> ((answer_finished[q] \/ error[q]) /\ ~InLoop(q))

(* C4: when the handling of a question whose generation was started has    *)
(* ended, the audit log holds exactly one row for that question.           *)
C4_LoggedExactlyOnce ==
    \A q \in Questions : Started(q) /\ Ended(q) => Cardinality(RowsOf(q)) = 1

(* C5: whenever the controller has observed error = true for a reply with  *)
(* a non-success status and is about to build the diagnostic text, the     *)
(* status code and the body are stored.                                    *)
C5_DiagnosticAvailable ==
    \A q \in Questions :
        hpc[q] = "L330" /\ Response = q /\ error[q] /\ Refused(q)
            => status_code[q] = <<response_status[q]>> /\ response_text[q] # Unset

(* C6: after a network fault during the stream the exchange goes on to an  *)
(* answer record, flagged as an error, that carries the text accumulated   *)
(* before the fault.                                                       *)
C6_FaultKeepsPartialAnswer ==
    \A q \in Questions :
        Faulted(q) /\ Ended(q)
            => /\ answer_dict[q].question = question(q)
               /\ answer_dict[q].error
               /\ answer_dict[q].answer = answer[q]

(* C7: a malformed line makes the reader set the error flag.               *)
C7_MalformedSetsError ==
    \A q \in Questions : rpc[q] = "crashed" => error[q]

C9_ConsecutiveEditsDiffer ==
    \A q \in Questions :
        \A i \in 1..(Len(StreamEdits(q)) - 1) :
            StreamEdits(q)[i].text # StreamEdits(q)[i + 1].text

(* C9, amended: two consecutive edits that stream_response issues carry    *)
(* different text unless the first of the two failed.                      *)
C9_EditDiffersFromLastDelivered ==
    \A q \in Questions :
        \A i \in 1..(Len(StreamEdits(q)) - 1) :
            StreamEdits(q)[i].ok
                => StreamEdits(q)[i].text # StreamEdits(q)[i + 1].text

(* C9, witness: an edit that succeeded is followed by another edit.        *)
C9_Witness ==
    \E q \in Questions :
        \E i \in 1..(Len(StreamEdits(q)) - 1) : StreamEdits(q)[i].ok

(* C10: when handling has ended, an exchange whose generation has error    *)
(* set made exactly one terminal call, the edit of the streamed message to *)
(* the fixed error text, and one without error never shows that text.      *)
C10_ErrorShowsFixedMessage ==
    \A q \in Questions :
        Started(q) /\ Ended(q)
            => IF error[q]
               THEN /\ Len(TerminalCalls(q)) = 1
                    /\ TerminalCalls(q)[1].op = "edit_message_text"
                    /\ TerminalCalls(q)[1].message_id = MessageIdOf(q)
                    /\ TerminalCalls(q)[1].text = error_message
               ELSE \A i \in 1..Len(out[q]) : out[q][i].text # error_message

(* The lines are well formed and only the last of them has done = true.    *)
OnlyLastDone(b) ==
    /\ Len(b) > 0
    /\ \A i \in 1..Len(b) : b[i].done = (IF i = Len(b) THEN "T" ELSE "F")

(* The response fields of the lines, one after the other.                  *)
RECURSIVE Concatenation(_)
Concatenation(b) ==
    IF b = <<>> THEN <<>> ELSE b[1].response \o Concatenation(Tail(b))

(* The reader has taken every line it was given and met no fault.          *)
Consumed(q) ==
    \/ rpc[q] \in {"L121", "L134"}
    \/ rpc[q] = "ended" /\ status_code[q] = <<200>>

(* C11: when the reader has consumed well-formed lines of which only the   *)
(* last has done = true, the accumulated text is the concatenation of      *)
(* their response fields in order, finished is true and error is false.    *)
C11_TextIsConcatenation ==
    \A q \in Questions :
        Consumed(q) /\ OnlyLastDone(body[q])
            => /\ answer[q] = Concatenation(body[q])
               /\ answer_finished[q]
               /\ ~error[q]

(* C11, witness: two lines with different response fields were consumed   *)
(* and the body has ended.                                                 *)
C11_Witness ==
    \E q \in Questions :
        /\ rpc[q] = "ended" /\ status_code[q] = <<200>>
        /\ OnlyLastDone(body[q])
        /\ Len(body[q]) = 2
        /\ body[q][1].response # body[q][2].response

(* format_answer has run for q: its blocks are in answer_blocks.           *)
Formatted(q) == hpc[q] \in {"L338", "returned", "raised"} /\ answer_blocks[q] # <<>>

(* The blocks of the answer, without the execution-time block.             *)
ContentBlocks(q) == SelectSeq(answer_blocks[q], LAMBDA b : b.type # "time")

(* The texts of the blocks, one after the other.                           *)
RECURSIVE Joined(_)
Joined(blocks) == IF blocks = <<>> THEN <<>> ELSE blocks[1].text \o Joined(Tail(blocks))

(* The number of fences in s from position i on, read left to right.       *)
RECURSIVE FencesFrom(_, _)
FencesFrom(s, i) ==
    IF i + 2 > Len(s) THEN 0
    ELSE IF SubSeq(s, i, i + 2) = Fence THEN 1 + FencesFrom(s, i + 3)
         ELSE FencesFrom(s, i + 1)

Fences(s) == FencesFrom(s, 1)

(* C12, as claimed: the texts of the content blocks, concatenated, are     *)
(* the answer text, whatever the number of fences.                         *)
C12_RoundTrip ==
    \A q \in Questions :
        Formatted(q) => Joined(ContentBlocks(q)) = answer[q]

(* C12, amended: the concatenation is the answer text when the number of   *)
(* fences is even, and the answer text followed by one closing fence when  *)
(* it is odd.                                                              *)
C12_RoundTripClosesFence ==
    \A q \in Questions :
        Formatted(q)
            => Joined(ContentBlocks(q)) =
                   IF Fences(answer[q]) % 2 = 0 THEN answer[q]
                   ELSE answer[q] \o Fence

(* C12, witness: a text with two fences around code, between prose, was    *)
(* formatted.                                                              *)
C12_Witness ==
    \E q \in Questions :
        /\ Formatted(q)
        /\ Fences(answer[q]) = 2
        /\ Len(ContentBlocks(q)) = 3

(* A PROSE segment is a block rendered as HTML, a CODE segment one         *)
(* rendered as MarkdownV2.                                                 *)
Prose(text) == [type |-> "answer", format |-> "HTML", text |-> text]
TimeBlocks(q) == SelectSeq(answer_blocks[q], LAMBDA b : b.type = "time")

(* C13, as claimed: a text without a fence, the empty text included, gives *)
(* exactly one PROSE segment and the execution-time segment.               *)
C13_NoFenceOneProse ==
    \A q \in Questions :
        Formatted(q) /\ Fences(answer[q]) = 0
            => /\ ContentBlocks(q) = <<Prose(answer[q])>>
               /\ Len(TimeBlocks(q)) = 1
               /\ Len(answer_blocks[q]) = 2

(* C13, amended: a text without a fence that is not empty gives exactly    *)
(* one PROSE segment, holding the text, and the execution-time segment;    *)
(* the empty text gives the execution-time segment alone.                  *)
C13_NoFenceOneProseUnlessEmpty ==
    \A q \in Questions :
        Formatted(q) /\ Fences(answer[q]) = 0
            => /\ ContentBlocks(q) =
                      IF answer[q] = <<>> THEN <<>> ELSE <<Prose(answer[q])>>
               /\ Len(TimeBlocks(q)) = 1
               /\ Len(answer_blocks[q]) = Len(ContentBlocks(q)) + 1

(* C13, witness: a text with backticks but no fence was formatted.         *)
C13_Witness ==
    \E q \in Questions :
        /\ Formatted(q)
        /\ Fences(answer[q]) = 0
        /\ \E i \in 1..Len(answer[q]) : answer[q][i] = Backtick

(* C14: for a text with an odd number of fences the last content segment   *)
(* is CODE, and in every text a content segment is CODE exactly when it is *)
(* a piece put back between fences.                                        *)
C14_DanglingFenceIsCode ==
    \A q \in Questions :
        Formatted(q)
            => /\ Fences(answer[q]) % 2 = 1
                    => /\ ContentBlocks(q) # <<>>
                       /\ ContentBlocks(q)[Len(ContentBlocks(q))].format = "MarkdownV2"
               /\ \A i \in 1..Len(ContentBlocks(q)) :
                      ContentBlocks(q)[i].format = "MarkdownV2"
                          <=> IsPrefix(Fence, ContentBlocks(q)[i].text)

(* C14, witness: prose followed by one dangling fence and code.            *)
C14_Witness ==
    \E q \in Questions :
        /\ Formatted(q)
        /\ Fences(answer[q]) = 1
        /\ Len(ContentBlocks(q)) = 2

RECURSIVE Pow2(_)
Pow2(n) == IF n = 0 THEN 1 ELSE 2 * Pow2(n - 1)

(* A step of q that is one iteration of the display loop.                  *)
Iteration(q) == hpc[q] = "L295" /\ hpc'[q] = "L288"

(* C16: the sleep of iteration i is floor(log2(1 + i/10) + 1) seconds, at  *)
(* least one second and never shorter than the sleep before it.            *)
C16_BackoffNonDecreasing ==
    [][\A q \in Questions :
          Iteration(q)
              => /\ slept'[q] >= 1
                 /\ slept'[q] >= slept[q]
                 /\ 10 * Pow2(slept'[q] - 1) <= 10 + while_iteration[q]
                 /\ 10 + while_iteration[q] < 10 * Pow2(slept'[q])]_vars

(* C16, witness: the loop has gone round often enough to sleep three       *)
(* seconds.                                                                *)
C16_Witness == \E q \in Questions : slept[q] = 3

(* The calls that start made for q: the disclaimer.                        *)
DisclaimerCalls(q) == SelectSeq(out[q], LAMBDA c : c.by = "start")

(* The step in which handle_message, given question q, goes through the   *)
(* disclaimer gate.                                                        *)
Arrival(q) == hpc[q] = "L320" /\ hpc'[q] # "L320"

(* The latest row of user u in the audit log, if there is one.             *)
LatestRows(u) ==
    { i \in 1..Len(Log) :
        /\ Log[i].user_id = u
        /\ \A j \in (i + 1)..Len(Log) : Log[j].user_id # u }

(* C17: with a positive interval and a disclaimer to send, a question      *)
(* that arrives has the disclaimer sent exactly when its user has no row   *)
(* yet or more than the interval has passed since the user's latest row.   *)
C17_GateFiresIffElapsed ==
    [][\A q \in Questions :
          Arrival(q) /\ min_time_between_disclaimers > 0 /\ disclaimer_message # ""
              => (out'[q] # <<>>
                     <=> \/ LatestRows(user_id[q]) = {}
                         \/ \E i \in LatestRows(user_id[q]) :
                               now - TicksPerSecond * Log[i].timestamp
                                   > TicksPerSecond * min_time_between_disclaimers)]_vars

(* C17, witness: the second question of a user arrived within the interval *)
(* and got no disclaimer.                                                  *)
C17_Witness ==
    /\ min_time_between_disclaimers > 0
    /\ user_id[1] = user_id[2]
    /\ hpc[2] \notin {"idle", "L320"}
    /\ DisclaimerCalls(1) # <<>>
    /\ DisclaimerCalls(2) = <<>>

(* C18: with interval 0 every question that is handled got the            *)
(* disclaimer.                                                             *)
C18_ZeroAlwaysShows ==
    \A q \in Questions :
        min_time_between_disclaimers = 0 /\ hpc[q] \notin {"idle", "L320"}
            => DisclaimerCalls(q) # <<>>

(* C19: when the handling of a question whose reader thread was started    *)
(* has ended, that thread has terminated and has been joined.              *)
C19_ReaderJoined ==
    \A q \in Questions :
        Started(q) /\ Ended(q)
            => joined[q] /\ rpc[q] \in {"ended", "crashed"}

(* C20: once error is true, the display loop makes no further call of the  *)
(* Telegram API, even when error became true during its sleep.             *)
C20_NoSendAfterError ==
    [][\A q \in Questions :
          error[q] /\ InLoop(q) => out'[q] = out[q]]_vars

(* C21: after a call of the display loop has failed, every later edit made *)
(* for the question, the terminal edit included, is sent as plain text.    *)
C21_DegradedToTheEnd ==
    \A q \in Questions :
        \A i, j \in 1..Len(out[q]) :
            /\ i < j
            /\ out[q][i].by = "stream_response"
            /\ ~out[q][i].ok
            /\ out[q][j].op = "edit_message_text"
            => out[q][j].parse_mode = None

(* The calls the display loop made for q, and the first sends among them.  *)
LoopCalls(q) == SelectSeq(out[q], LAMBDA c : c.by = "stream_response")
FirstSends(q) == SelectSeq(LoopCalls(q), LAMBDA c : c.op = "reply_text")

(* C22, as claimed: the display loop calls reply_text at most once for a   *)
(* question.                                                               *)
C22_OneFirstSend ==
    \A q \in Questions : Len(FirstSends(q)) <= 1

(* C22, amended: the display loop calls reply_text until one call          *)
(* succeeds: every call before that one is a reply_text that failed, and   *)
(* every call after it is an edit of the message it created.               *)
C22_FirstSendUntilDelivered ==
    \A q \in Questions :
        \A i, j \in 1..Len(LoopCalls(q)) :
            /\ LoopCalls(q)[i].op = "edit_message_text"
                   => /\ LoopCalls(q)[i].message_id = MessageIdOf(q)
                      /\ \E k \in 1..(i - 1) :
                            LoopCalls(q)[k].op = "reply_text" /\ LoopCalls(q)[k].ok
            /\ LoopCalls(q)[i].ok /\ i < j => LoopCalls(q)[j].op = "edit_message_text"

(* C22, witness: a first send failed, the next one succeeded, and an edit  *)
(* followed.                                                               *)
C22_Witness ==
    \E q \in Questions :
        /\ Len(LoopCalls(q)) >= 3
        /\ LoopCalls(q)[1].op = "reply_text" /\ ~LoopCalls(q)[1].ok
        /\ LoopCalls(q)[2].op = "reply_text" /\ LoopCalls(q)[2].ok
        /\ LoopCalls(q)[3].op = "edit_message_text"

(* C23: every terminal edit that handle_message makes names a message that *)
(* the display loop created.                                               *)
C23_TerminalEditHasMessage ==
    \A q \in Questions :
        \A i \in 1..Len(TerminalCalls(q)) :
            TerminalCalls(q)[i].op = "edit_message_text"
                => TerminalCalls(q)[i].message_id = MessageIdOf(q)

(* C24: the blocks shown for a successful exchange are those of the answer *)
(* text that parse_response put in the record.                             *)
C24_ShownIsRecorded ==
    \A q \in Questions :
        Formatted(q)
            => answer_blocks[q] =
                   format_answer(answer_dict[q].answer, answer_dict[q].execution_time)


(* C25, as stated: with a positive interval, a question of a user does not *)
(* bring a disclaimer when it goes through the gate within the interval    *)
(* after a disclaimer was delivered to that user.                          *)
C25_NoDisclaimerWithinInterval ==
    [][\A q \in Questions :
          /\ Arrival(q)
          /\ min_time_between_disclaimers > 0
          /\ disclaimer_sent_at[user_id[q]] >= 0
          /\ now - disclaimer_sent_at[user_id[q]]
                <= TicksPerSecond * min_time_between_disclaimers
          => DisclaimerCalls(q)' = <<>>]_vars

(* C25, amended: the contact is recorded in whole seconds, so a question   *)
(* of a user brings no disclaimer when it goes through the gate within the *)
(* interval less one second after a disclaimer was delivered to that user, *)
(* whatever happened to the exchanges in between.                          *)
C25_NoDisclaimerWithinIntervalLessOne ==
    [][\A q \in Questions :
          /\ Arrival(q)
          /\ min_time_between_disclaimers > 0
          /\ disclaimer_sent_at[user_id[q]] >= 0
          /\ now - disclaimer_sent_at[user_id[q]]
                <= TicksPerSecond * (min_time_between_disclaimers - 1)
          => DisclaimerCalls(q)' = <<>>]_vars

(* The second question of a user went through the gate a second or less    *)
(* after the disclaimer was delivered for the first, whose exchange        *)
(* failed, and brought none.                                               *)
C25_Witness ==
    /\ updates = 2
    /\ user_id[1] = user_id[2]
    /\ min_time_between_disclaimers = 2
    /\ \E i \in 1..Len(DisclaimerCalls(1)) : DisclaimerCalls(1)[i].ok
    /\ Refused(1)
    /\ hpc[2] \notin {"idle", "L320"}
    /\ DisclaimerCalls(2) = <<>>
    /\ disclaimer_sent_at[user_id[2]] >= 0
    /\ now - disclaimer_sent_at[user_id[2]] <= TicksPerSecond
    /\ now > disclaimer_sent_at[user_id[2]]

=============================================================================
